---- MODULE Spec2Model ----
(***************************************************************************)
(* A model of cluttool (src/cluttool/cluttool.py): the ColorLUT data       *)
(* model, the flat cube indexer, trilinear interpolation, resampling, the  *)
(* uniform interval generator, the Hald CLUT reader and the .3dl / .cube   *)
(* writers.                                                                *)
(*                                                                         *)
(* Python floats are IEEE-754 binary64 numbers.  They are modelled bit for *)
(* bit: a float is a 53 bit mantissa and a binary exponent, and every      *)
(* arithmetic operation rounds to nearest, ties to even, as the hardware   *)
(* does.  The mantissas do not fit TLC's integers, so they are kept as     *)
(* little-endian sequences of 15 bit limbs (the Big* operators).           *)
(***************************************************************************)
EXTENDS Integers, Sequences, FiniteSets, TLC

\* TLC evaluates operator arguments lazily, and a chain of pending
\* arguments is evaluated on a deep stack.  Strict1, 2 and 3 apply Op to
\* arguments that are evaluated first; the value is that of Op(a, ...).
Strict1(Op(_), a) == CHOOSE y \in {Op(x) : x \in {a}} : TRUE
Strict2(Op(_, _), a, b) == CHOOSE y \in {Op(x[1], x[2]) : x \in {<<a, b>>}} : TRUE
Strict3(Op(_, _, _), a, b, c) ==
  CHOOSE y \in {Op(x[1], x[2], x[3]) : x \in {<<a, b, c>>}} : TRUE

(***************************************************************************)
(* Natural numbers of arbitrary size: little-endian limbs, no leading zero *)
(* limb, <<>> is 0.                                                        *)
(***************************************************************************)
Base == 2^15
LimbBits == 14 + 1

RECURSIVE BigNorm(_)
BigNorm(a) ==
  IF a = <<>> THEN a
  ELSE IF a[Len(a)] = 0 THEN BigNorm(SubSeq(a, 1, Len(a) - 1)) ELSE a

RECURSIVE BigFromInt(_)
BigFromInt(n) == IF n = 0 THEN <<>> ELSE <<n % Base>> \o BigFromInt(n \div Base)

RECURSIVE BigToInt(_)
BigToInt(a) == IF a = <<>> THEN 0 ELSE a[1] + Base * BigToInt(Tail(a))

RECURSIVE BigCmpFrom(_, _, _)
BigCmpFrom(a, b, i) ==
  IF i = 0 THEN 0
  ELSE IF a[i] > b[i] THEN 1
  ELSE IF a[i] < b[i] THEN -1
  ELSE BigCmpFrom(a, b, i - 1)

BigCmp(a, b) ==
  IF Len(a) > Len(b) THEN 1
  ELSE IF Len(a) < Len(b) THEN -1
  ELSE BigCmpFrom(a, b, Len(a))

RECURSIVE BigAddC(_, _, _)
BigAddC(a, b, c) ==
  IF a = <<>> /\ b = <<>> THEN (IF c = 0 THEN <<>> ELSE <<c>>)
  ELSE LET x == IF a = <<>> THEN 0 ELSE a[1]
           y == IF b = <<>> THEN 0 ELSE b[1]
           s == x + y + c
       IN  <<s % Base>> \o BigAddC(IF a = <<>> THEN a ELSE Tail(a),
                                    IF b = <<>> THEN b ELSE Tail(b),
                                    s \div Base)

BigAdd(a, b) == BigAddC(a, b, 0)

RECURSIVE BigSubB(_, _, _)
BigSubB(a, b, c) ==
  IF a = <<>> THEN <<>>
  ELSE LET y == IF b = <<>> THEN 0 ELSE b[1]
           d == a[1] - y - c
       IN  <<IF d < 0 THEN d + Base ELSE d>>
             \o BigSubB(Tail(a), IF b = <<>> THEN b ELSE Tail(b),
                        IF d < 0 THEN 1 ELSE 0)

\* a - b, for a >= b
BigSub(a, b) == BigNorm(BigSubB(a, b, 0))

RECURSIVE BigMulSmallC(_, _, _)
BigMulSmallC(a, k, c) ==
  IF a = <<>> THEN (IF c = 0 THEN <<>> ELSE <<c>>)
  ELSE LET p == a[1] * k + c
       IN  <<p % Base>> \o BigMulSmallC(Tail(a), k, p \div Base)

\* a * k, for 0 <= k < Base
BigMulSmall(a, k) == IF k = 0 THEN <<>> ELSE BigMulSmallC(a, k, 0)

RECURSIVE BigMul(_, _)
BigMul(a, b) ==
  IF a = <<>> \/ b = <<>> THEN <<>>
  ELSE LET rest == BigMul(a, Tail(b))
       IN  BigAdd(BigMulSmall(a, b[1]),
                  IF rest = <<>> THEN rest ELSE <<0>> \o rest)

RECURSIVE Zeros(_)
Zeros(n) == IF n = 0 THEN <<>> ELSE <<0>> \o Zeros(n - 1)

\* a * 2^n
BigShl(a, n) ==
  IF a = <<>> THEN a
  ELSE Zeros(n \div LimbBits) \o BigMulSmallC(a, 2^(n % LimbBits), 0)

RECURSIVE BigShrSmall(_, _)
BigShrSmall(a, r) ==
  IF a = <<>> THEN <<>>
  ELSE LET hi == IF Len(a) > 1 THEN a[2] % (2^r) ELSE 0
       IN  <<(a[1] \div (2^r)) + hi * 2^(LimbBits - r)>> \o BigShrSmall(Tail(a), r)

\* a \div 2^n
BigShr(a, n) ==
  LET q == n \div LimbBits
  IN  IF q >= Len(a) THEN <<>>
      ELSE BigNorm(BigShrSmall(SubSeq(a, q + 1, Len(a)), n % LimbBits))

RECURSIVE IntBitLen(_)
IntBitLen(n) == IF n = 0 THEN 0 ELSE 1 + IntBitLen(n \div 2)

BigBitLen(a) ==
  IF a = <<>> THEN 0 ELSE LimbBits * (Len(a) - 1) + IntBitLen(a[Len(a)])

BigBit(a, i) ==
  LET k == i \div LimbBits + 1
  IN  IF k > Len(a) THEN 0 ELSE (a[k] \div (2^(i % LimbBits))) % 2

BigIsOdd(a) == a # <<>> /\ a[1] % 2 = 1

\* the largest d < Base with b * d <= r, found bit by bit from the top
RECURSIVE BigDigit(_, _, _, _)
BigDigit(r, b, d, bit) ==
  IF bit < 0 \/ d < 0 THEN d
  ELSE LET t == d + 2^bit
       IN  BigDigit(r, b, IF BigCmp(BigMulSmall(b, t), r) <= 0 THEN t ELSE d, bit - 1)

\* schoolbook long division, one limb of a at a time from the top:
\* <<quotient limbs 1..i, remainder>>, r the remainder so far (r < b)
RECURSIVE BigDivModIter(_, _, _, _)
\* the step for the digit d of r1
BigDivModDigit(a, b, i, r1, d) ==
  Strict1(LAMBDA rest : <<Append(rest[1], d), rest[2]>>,
          BigDivModIter(a, b, i - 1, BigSub(r1, BigMulSmall(b, d))))

BigDivModLimb(a, b, i, r1) == BigDivModDigit(a, b, i, r1, BigDigit(r1, b, 0, LimbBits - 1))

BigDivModIter(a, b, i, r) ==
  IF i = 0 \/ Len(r) < 0 THEN <<<<>>, r>>
  ELSE BigDivModLimb(a, b, i, BigNorm(<<a[i]>> \o r))

\* <<a \div b, a % b>>, b not zero
BigDivMod(a, b) ==
  Strict1(LAMBDA x : <<BigNorm(x[1]), x[2]>>, BigDivModIter(a, b, Len(a), <<>>))

(***************************************************************************)
(* Python float: IEEE-754 binary64, non-negative values only (no LUT in    *)
(* the model holds a negative sample).  A float is [m, e] with value       *)
(* m * 2^e and 2^52 <= m < 2^53, or FZero.  The representation is          *)
(* canonical, so two floats are equal iff their records are.               *)
(***************************************************************************)
MantBits == 53

FZero == [m |-> <<>>, e |-> 0]

\* q + 1 or q as the remainder compares (c) to the half: ties to even
BigRoundUp(q, c) ==
  IF c > 0 \/ (c = 0 /\ BigIsOdd(q)) THEN BigAdd(q, <<1>>) ELSE q

BigRoundRem(M, sh, q) ==
  BigRoundUp(q, BigCmp(BigSub(M, BigShl(q, sh)), BigShl(<<1>>, sh - 1)))

\* M / 2^sh rounded to the nearest integer, ties to even (sh >= 1)
BigRoundShr(M, sh) == BigRoundRem(M, sh, BigShr(M, sh))

\* q * 2^e for a q of MantBits or MantBits + 1 bits (a rounding carried)
FRoundCarry(q, e) ==
  IF BigBitLen(q) > MantBits THEN [m |-> BigShr(q, 1), e |-> e + 1]
  ELSE [m |-> q, e |-> e]

\* the float nearest to M * 2^e, M of L bits
FRoundLen(M, e, L) ==
  IF L = 0 THEN FZero
  ELSE IF L <= MantBits THEN [m |-> BigShl(M, MantBits - L), e |-> e - (MantBits - L)]
  ELSE FRoundCarry(BigRoundShr(M, L - MantBits), e + (L - MantBits))

\* the float nearest to M * 2^e
FRound(M, e) == FRoundLen(M, e, BigBitLen(M))

\* float(n) for an int 0 <= n < 2^31 (exact)
FFromInt(n) == FRound(BigFromInt(n), 0)

FIsZero(a) == a.m = <<>>

\* -1, 0, 1 as a < b, a = b, a > b
FCmpOf(a, b) ==
  IF FIsZero(a) THEN (IF FIsZero(b) THEN 0 ELSE -1)
  ELSE IF FIsZero(b) THEN 1
  ELSE IF a.e > b.e THEN 1
  ELSE IF a.e < b.e THEN -1
  ELSE BigCmp(a.m, b.m)

FCmp(a, b) == Strict2(FCmpOf, a, b)

\* a * b
FMulOf(a, b) ==
  IF FIsZero(a) \/ FIsZero(b) THEN FZero
  ELSE FRound(BigMul(a.m, b.m), a.e + b.e)

FMul(a, b) == Strict2(FMulOf, a, b)

\* the quotient qr[1] with a sticky bit for the remainder qr[2], rounded
FDivSticky(qr, e) ==
  FRound(BigAddC(BigMulSmall(qr[1], 2), <<>>, IF qr[2] = <<>> THEN 0 ELSE 1), e)

\* a / b, b not zero: 56 quotient bits and a sticky bit, then rounded
FDivOf(a, b) ==
  IF FIsZero(a) THEN FZero
  ELSE FDivSticky(BigDivMod(BigShl(a.m, MantBits + 2), b.m), a.e - b.e - (MantBits + 3))

FDiv(a, b) == Strict2(FDivOf, a, b)

\* a + b
FAddOf(a, b) ==
  IF FIsZero(a) THEN b
  ELSE IF FIsZero(b) THEN a
  ELSE LET hi == IF a.e >= b.e THEN a ELSE b
           lo == IF a.e >= b.e THEN b ELSE a
           d  == hi.e - lo.e
       IN  IF d > 2 * MantBits
           THEN FRound(BigAddC(BigShl(hi.m, 3), <<>>, 1), hi.e - 3)
           ELSE FRound(BigAdd(BigShl(hi.m, d), lo.m), lo.e)

FAdd(a, b) == Strict2(FAddOf, a, b)

\* a - b, for a >= b
FSubOf(a, b) ==
  IF FIsZero(b) THEN a
  ELSE LET d == a.e - b.e
       IN  IF d > 2 * MantBits
           THEN FRound(BigSub(BigShl(a.m, 3), <<1>>), a.e - 3)
           ELSE FRound(BigSub(BigShl(a.m, d), b.m), b.e)

FSub(a, b) == Strict2(FSubOf, a, b)

\* abs(a - b)
FAbsDiff(a, b) == IF FCmp(a, b) >= 0 THEN FSub(a, b) ELSE FSub(b, a)

\* math.trunc(a) and int(a), as an int
FTruncOf(a) ==
  IF FIsZero(a) THEN 0
  ELSE IF a.e >= 0 THEN BigToInt(BigShl(a.m, a.e))
  ELSE BigToInt(BigShr(a.m, -a.e))

FTrunc(a) == Strict1(FTruncOf, a)

\* int(round(a)): Python 3 rounds a float half to even
FRoundIntOf(a) ==
  IF FIsZero(a) THEN 0
  ELSE IF a.e >= 0 THEN BigToInt(BigShl(a.m, a.e))
  ELSE BigToInt(BigRoundShr(a.m, -a.e))

FRoundInt(a) == Strict1(FRoundIntOf, a)

\* float(Decimal(a) % Decimal(b)) for a >= 0, b > 0.  Decimal(x) is exact,
\* the remainder a - b*floor(a/b) is a multiple of the smaller unit and less
\* than b, hence itself a float; Decimal rounds it to 28 digits, which is
\* within a quarter ulp of it, and float() rounds that back to it.
FDecimalModOf(a, b) ==
  IF FCmp(a, b) < 0 THEN a
  ELSE FRound(BigDivMod(BigShl(a.m, a.e - b.e), b.m)[2], b.e)

FDecimalMod(a, b) == Strict2(FDecimalModOf, a, b)

FOne == FFromInt(1)

(***************************************************************************)
(* Results of a call: err is "none" and val the value returned, or err     *)
(* names the exception raised and why tells the ValueErrors apart.         *)
(***************************************************************************)
Ok(v) == [err |-> "none", why |-> "", val |-> v]
Raise(e) == [err |-> e, why |-> "", val |-> <<>>]
Reject(why) == [err |-> "ValueError", why |-> why, val |-> <<>>]

(***************************************************************************)
(* array.array: the typecodes the constructor distinguishes.               *)
(***************************************************************************)
IntegralTypecodes == {"b", "B", "h", "H", "i", "I", "l", "L"}
RealTypecodes == {"f", "d"}
\* "u" holds characters, which are no numbers.Number
NumberTypecodes == IntegralTypecodes \cup RealTypecodes \cup {"q", "Q"}

\* data[i:j] of a Python sequence, i and j any ints
PySliceBound(n, i) == IF i < 0 THEN (IF i + n < 0 THEN 0 ELSE i + n) ELSE IF i > n THEN n ELSE i

PySlice(data, i, j) ==
  LET lo == PySliceBound(Len(data), i)
      hi == PySliceBound(Len(data), j)
  IN  IF lo >= hi THEN <<>> ELSE SubSeq(data, lo + 1, hi)

(***************************************************************************)
(* Value3D: a triple of numbers.  A component is an int (a sample of an    *)
(* integral buffer) or a float; AsFloat is the conversion Python applies   *)
(* when an int meets a float in an arithmetic operation.                   *)
(***************************************************************************)
AsFloat(integral, x) == IF integral THEN FFromInt(x) ELSE x

\* Value3D.__mul__ with a float y, on float components
Value3D_mul(v, y) == <<FMul(v[1], y), FMul(v[2], y), FMul(v[3], y)>>

\* Value3D.__add__, on float components
Value3D_add(x, y) == <<FAdd(x[1], y[1]), FAdd(x[2], y[2]), FAdd(x[3], y[3])>>

\* index_3d: the slice of 3 samples at the flat offset, unchecked
index_3d(data, size, r_idx, g_idx, b_idx) ==
  LET idx == 3 * (r_idx + size * g_idx + size * size * b_idx)
  IN  PySlice(data, idx, idx + 3)

(***************************************************************************)
(* ColorLUT.__init__.  The constructor reads the buffer's class, its first *)
(* element, its typecode and its length only, so it is given those;        *)
(* sample_count is [isInt, v], input_domain is [kind, f] with kind "int",  *)
(* "float" or "none" (no number) and f the value as a float.               *)
(***************************************************************************)
\* input_domain divided by the number of samples
SampleDistancePerSample(input_domain, sample_count) ==
  IF sample_count = 0 THEN Raise("ZeroDivisionError")
  ELSE Ok(FDiv(input_domain.f, FFromInt(sample_count)))

SampleDistance(input_domain, sample_count) ==
  IF sample_count - 1 = 0 THEN Raise("ZeroDivisionError")
  ELSE Ok(FDiv(input_domain.f, FFromInt(sample_count - 1)))

LengthMatches(dataLen, sample_count) ==
  dataLen = 3 * (sample_count * sample_count * sample_count)

KindMatches(typecode, input_domain) ==
  IF input_domain.kind = "int" THEN typecode \in IntegralTypecodes
  ELSE typecode \in RealTypecodes

\* the object, once the checks have passed
ColorLUT_object(typecode, dataLen, sample_count, input_domain, red_increments_fastest, sd) ==
  IF sd.err # "none" THEN Raise(sd.err)
  ELSE Ok([typecode |-> typecode,
           dataLen |-> dataLen,
           sample_count |-> sample_count,
           input_domain |-> input_domain,
           red_increments_fastest |-> red_increments_fastest,
           integral |-> typecode \in IntegralTypecodes,
           sample_distance |-> sd.val])

ColorLUT_init(isArray, typecode, dataLen, sample_count, input_domain, red_increments_fastest) ==
  IF ~isArray THEN Reject("data")
  ELSE IF dataLen = 0 THEN Raise("IndexError")
  ELSE IF typecode \notin NumberTypecodes THEN Reject("data")
  ELSE IF ~sample_count.isInt THEN Reject("sample_count")
  ELSE IF input_domain.kind = "none" THEN Reject("input_domain")
  ELSE IF ~KindMatches(typecode, input_domain) THEN Reject("type")
  ELSE IF ~LengthMatches(dataLen, sample_count.v) THEN Reject("length")
  ELSE ColorLUT_object(typecode, dataLen, sample_count.v, input_domain, red_increments_fastest,
                       SampleDistance(input_domain, sample_count.v))

\* self.data = data
WithData(data, r) == IF r.err # "none" THEN r ELSE Ok([data |-> data] @@ r.val)

\* ColorLUT(data, sample_count, input_domain, red_increments_fastest) for
\* an array of the given typecode: the object with its buffer
ColorLUT(data, typecode, sample_count, input_domain, red_increments_fastest) ==
  WithData(data, ColorLUT_init(TRUE, typecode, Len(data), [isInt |-> TRUE, v |-> sample_count],
                               input_domain, red_increments_fastest))

IntDomain(n) == [kind |-> "int", f |-> FFromInt(n)]
FloatDomain(f) == [kind |-> "float", f |-> f]

(***************************************************************************)
(* ColorLUT.get_color_value_from_index.  The slice index_3d returns is     *)
(* wrapped in a Value3D and formatted for the log line (Value3D.__str__    *)
(* fills 'Value3D({},{},{})' from the components), which raises IndexError *)
(* on fewer than three components.                                         *)
(***************************************************************************)
get_color_value_unswapped(self, r_idx, g_idx, b_idx) ==
  Strict1(LAMBDA v : IF Len(v) < 3 THEN Raise("IndexError") ELSE Ok(v),
          index_3d(self.data, self.sample_count, r_idx, g_idx, b_idx))

get_color_value_from_index(self, r_idx, g_idx, b_idx) ==
  Strict1(LAMBDA v : IF Len(v) < 3 THEN Raise("IndexError") ELSE Ok(v),
          index_3d(self.data, self.sample_count,
                   IF self.red_increments_fastest THEN r_idx ELSE b_idx,
                   g_idx,
                   IF self.red_increments_fastest THEN b_idx ELSE r_idx))

(***************************************************************************)
(* ColorLUT.get_interpolated_color_value, inputs as floats.                *)
(***************************************************************************)
\* one axis: the lower grid index v_0_idx and the weight v_d
AxisIndexOf(self, v_input) ==
  IF FCmp(v_input, self.input_domain.f) = 0
  THEN Ok([idx |-> self.sample_count - 2, d |-> FOne])
  ELSE IF FIsZero(self.sample_distance) THEN Raise("ZeroDivisionError")
  ELSE Ok([idx |-> FTrunc(FDiv(v_input, self.sample_distance)),
           d   |-> FDiv(FDecimalMod(v_input, self.sample_distance), self.sample_distance)])

AxisIndex(self, v_input) == Strict2(AxisIndexOf, self, v_input)

\* a*(1.0-d) + b*d on Value3Ds of floats
LerpOf(a, b, d) == Value3D_add(Value3D_mul(a, FSub(FOne, d)), Value3D_mul(b, d))

Lerp(a, b, d) == Strict3(LerpOf, a, b, d)

\* the 8 corners c_000, c_001, ..., c_111 as <<r, g, b>> offsets, in the order
\* the code fetches them
CornerOffsets ==
  <<<<0, 0, 0>>, <<0, 0, 1>>, <<0, 1, 0>>, <<0, 1, 1>>,
    <<1, 0, 0>>, <<1, 0, 1>>, <<1, 1, 0>>, <<1, 1, 1>>>>

\* the <<r_idx, g_idx, b_idx>> of the 8 lookups an interpolation issues
\* (what get_color_value_from_index is called with), axes the three
\* results of AxisIndex
CornerIndexes(axes) ==
  [n \in 1..8 |-> <<axes[1].val.idx + CornerOffsets[n][1],
                    axes[2].val.idx + CornerOffsets[n][2],
                    axes[3].val.idx + CornerOffsets[n][3]>>]

\* the components of a looked up value as floats
Components(self, c) ==
  <<AsFloat(self.integral, c.val[1]), AsFloat(self.integral, c.val[2]),
    AsFloat(self.integral, c.val[3])>>

\* c_00 ... c_11 from the 8 corners and r_d, then c_0 and c_1 from those and
\* g_d, then c from those and b_d: each step interpolates the first half of
\* the values with the second half
RECURSIVE Trilinear(_, _, _)
Trilinear(c, d, axis) ==
  IF axis > 3 THEN c[1]
  ELSE Trilinear(Strict1(LAMBDA h : [n \in 1..h |-> Lerp(c[n], c[n + h], d[axis])], Len(c) \div 2),
                 d, axis + 1)

\* the interpolation of the 8 values looked up
InterpolateCorners(self, axes, c) ==
  IF \E n \in 1..8 : c[n].err # "none" THEN Raise("IndexError")
  ELSE Ok(Trilinear([n \in 1..8 |-> Components(self, c[n])],
                    <<axes[1].val.d, axes[2].val.d, axes[3].val.d>>, 1))

LookupCorners(self, axes, idx) ==
  InterpolateCorners(self, axes,
    [n \in 1..8 |-> get_color_value_from_index(self, idx[n][1], idx[n][2], idx[n][3])])

InterpolateAxes(self, axes) ==
  IF \E a \in 1..3 : axes[a].err # "none" THEN Raise("ZeroDivisionError")
  ELSE LookupCorners(self, axes, CornerIndexes(axes))

AxisIndexes(self, v) == <<AxisIndex(self, v[1]), AxisIndex(self, v[2]), AxisIndex(self, v[3])>>

get_interpolated_color_value(self, r_input, g_input, b_input) ==
  Strict2(InterpolateAxes, self, AxisIndexes(self, <<r_input, g_input, b_input>>))

InterpolationLookups(axes) ==
  IF \E a \in 1..3 : axes[a].err # "none" THEN <<>> ELSE CornerIndexes(axes)

(***************************************************************************)
(* ColorLUT.get_values_translated returns a generator.  The call computes  *)
(* the flags and the scaling factor; each next() yields one Value3D.       *)
(***************************************************************************)
get_values_translated(self, increment_red_fastest, output_sample_count, output_domain) ==
  IF FIsZero(self.input_domain.f) THEN Raise("ZeroDivisionError")
  ELSE Ok([increment_red_fastest |-> increment_red_fastest,
           output_sample_count |-> output_sample_count,
           interpolate_output |-> output_sample_count # self.sample_count,
           scale_output |-> FCmp(output_domain.f, self.input_domain.f) # 0,
           scaling_factor |-> FDiv(output_domain.f, self.input_domain.f)])

\* the index triples with red incrementing fastest, whatever was asked
GridIndexRedFastest(increment_red_fastest, n, k) ==
  <<k % n, (k \div n) % n, k \div (n * n)>>

\* the k-th (from 0) index triple <<r, g, b>> of the nested loops
GridIndex(increment_red_fastest, n, k) ==
  IF increment_red_fastest
  THEN <<k % n, (k \div n) % n, k \div (n * n)>>
  ELSE <<k \div (n * n), (k \div n) % n, k % n>>

\* the input coordinates get_values_translated interpolates at for <<r, g, b>>
InputValue(self, gen, idx) ==
  Value3D_mul(<<FFromInt(idx[1]), FFromInt(idx[2]), FFromInt(idx[3])>>,
              FDiv(self.input_domain.f, FFromInt(gen.output_sample_count - 1)))

InterpolateAt(self, v) == get_interpolated_color_value(self, v[1], v[2], v[3])

\* output_values before scaling, at the index triple idx
Looked(self, gen, idx) ==
  IF gen.interpolate_output
  THEN IF gen.output_sample_count - 1 = 0 THEN Raise("ZeroDivisionError")
       ELSE InterpolateAt(self, InputValue(self, gen, idx))
  ELSE get_color_value_from_index(self, idx[1], idx[2], idx[3])

\* output_value*scaling_factor, where the output is scaled
Scaled(self, gen, looked) ==
  IF looked.err # "none" THEN looked
  ELSE IF gen.scale_output
  THEN Ok(Value3D_mul(<<AsFloat(self.integral /\ ~gen.interpolate_output, looked.val[1]),
                        AsFloat(self.integral /\ ~gen.interpolate_output, looked.val[2]),
                        AsFloat(self.integral /\ ~gen.interpolate_output, looked.val[3])>>,
                      gen.scaling_factor))
  ELSE looked

\* the k-th (from 0) value of the generator
GenValueOf(self, gen, k) ==
  Scaled(self, gen,
         Looked(self, gen, GridIndex(gen.increment_red_fastest, gen.output_sample_count, k)))

GenValue(self, gen, k) == Strict3(GenValueOf, self, gen, k)

\* the number of values the generator yields
GenLength(gen) == gen.output_sample_count * gen.output_sample_count * gen.output_sample_count

(***************************************************************************)
(* uniform_intervals(end, samples, floating_point), end and samples ints,  *)
(* end >= 0 and samples >= 1.                                              *)
(***************************************************************************)
\* the float literal 0.07: the float nearest to 7/100
Tolerance == FDiv(FFromInt(7), FFromInt(100))

\* error_frac > 0.07 for the pair values[idx-1], values[idx] (idx from 2)
SpacingError(values, dist, idx) ==
  FCmp(FAbsDiff(FDiv(FFromInt(values[idx] - values[idx - 1]), dist), FOne), Tolerance) > 0

RoundedIntervals(dist, samples) ==
  Strict1(LAMBDA values :
            IF \E idx \in 2..samples : SpacingError(values, dist, idx)
            THEN Raise("ValueError")
            ELSE Ok(values),
          [i \in 1..samples |-> FRoundInt(FMul(dist, FFromInt(i - 1)))])

uniform_intervals(end, samples, floating_point) ==
  IF samples - 1 = 0 THEN Raise("ZeroDivisionError")
  ELSE Strict1(LAMBDA dist :
                 IF floating_point
                 THEN Ok([i \in 1..samples |-> FMul(dist, FFromInt(i - 1))])
                 ELSE IF FIsZero(dist) THEN Raise("ZeroDivisionError")
                 ELSE RoundedIntervals(dist, samples),
               FDiv(FFromInt(end), FFromInt(samples - 1)))

(***************************************************************************)
(* is_perfect_six_root(n).  c is int(n**(1/6.)): the C library's pow is    *)
(* accurate to a few units in the last place, so for n = k^6 it returns k  *)
(* or a float just below k, which int() truncates to k - 1; for any other  *)
(* n it truncates to the floor of the root.                                *)
(***************************************************************************)
Pow6(c) == c * c * c * c * c * c

\* the floor of the sixth root of n >= 0
FloorSixthRoot(n) == CHOOSE c \in 0..n : Pow6(c) <= n /\ Pow6(c + 1) > n

\* the values int(n**(1/6.)) may take
TruncSixthRoot(n) ==
  LET c == FloorSixthRoot(n)
  IN  IF Pow6(c) = n /\ c > 0 THEN {c - 1, c} ELSE {c}

\* the test of c alone
is_perfect_six_root_exact(n, c) == Pow6(c) = n

is_perfect_six_root(n, c) == (Pow6(c) = n) \/ (Pow6(c + 1) = n)

\* int(round(n**(1./3))): the integer nearest to the cube root of n >= 0
RoundCubeRoot(n) ==
  CHOOSE k \in 0..n : (2 * k - 1) * (2 * k - 1) * (2 * k - 1) <= 8 * n
                      /\ 8 * n < (2 * k + 1) * (2 * k + 1) * (2 * k + 1)

(***************************************************************************)
(* ColorLUT.from_haldclut.  png is what png.Reader(...).read_flat() gave:  *)
(* width, height, bitdepth, the flags of the metadata, and a flat array of *)
(* width * height * planes samples (typecode B up to 8 bits, H above); the *)
(* reader looks at the length and the typecode of the buffer only.         *)
(***************************************************************************)
DecodedLen(png) == png.width * png.height * (IF png.greyscale THEN 1 ELSE 3)

\* the buffer handed to the constructor: a greyscale buffer with every
\* sample yielded three times
ExpandedLen(png) == IF png.greyscale THEN 3 * DecodedLen(png) ELSE DecodedLen(png)

PngTypecode(png) == IF png.bitdepth > 8 THEN "H" ELSE "B"

\* the test of the width alone
DimensionsOkAnyHeight(png, c) == is_perfect_six_root(png.width * png.width, c)

DimensionsOk(png, c) ==
  png.width = png.height /\ is_perfect_six_root(png.width * png.width, c)

from_haldclut(png, c) ==
  IF png.palette THEN Reject("palette")
  ELSE IF png.gamma THEN Reject("gamma")
  ELSE IF png.transparent THEN Reject("transparent")
  ELSE IF png.alpha THEN Reject("alpha")
  ELSE IF png.bitdepth \notin {8, 16} THEN Reject("bitdepth")
  ELSE IF ~DimensionsOk(png, c) THEN Reject("dimensions")
  ELSE ColorLUT_init(TRUE, PngTypecode(png), ExpandedLen(png),
                     [isInt |-> TRUE, v |-> RoundCubeRoot(png.width * png.width)],
                     IntDomain(2^png.bitdepth - 1), TRUE)

(***************************************************************************)
(* The rows write_3dl and write_cube format.                               *)
(***************************************************************************)
RECURSIVE BigPow10(_)
BigPow10(k) == IF k = 0 THEN <<1>> ELSE BigMulSmall(BigPow10(k - 1), 10)

\* v * 10^k as an integer: rounded half to even, or (floor) rounded down
ScaledDigits(v, k, floor) ==
  Strict1(LAMBDA M : IF v.e >= 0 THEN BigShl(M, v.e)
                     ELSE IF floor THEN BigShr(M, -v.e)
                     ELSE BigRoundShr(M, -v.e),
          BigMul(v.m, BigPow10(k)))

\* the least k >= from with v * 10^k >= 10^6, for 0 < v < 10^7
RECURSIVE DigitsExponent(_, _)
DigitsExponent(v, from) ==
  IF BigCmp(ScaledDigits(v, from, TRUE), BigPow10(6)) >= 0 THEN from
  ELSE DigitsExponent(v, from + 1)

\* '{:.7g}'.format(v) for a float 0 <= v < 10^7: the 7 significant digits of
\* v, rounded half to even on its exact value, as <<digits, exponent>> with
\* v ~ digits * 10^exponent
FormatG7Of(v) ==
  IF FIsZero(v) THEN <<0, 0>>
  ELSE Strict1(LAMBDA k :
         Strict1(LAMBDA d : IF d = 10000000 THEN <<1000000, 1 - k>> ELSE <<d, -k>>,
                 BigToInt(ScaledDigits(v, k, FALSE))),
         DigitsExponent(v, 0))

FormatG7(v) == Strict1(FormatG7Of, v)

\* '{:.0f}'.format(v): an int as it is, a float rounded half to even
FormatF0(integral, v) == IF integral THEN v ELSE FRoundInt(v)

\* no call yet
NoLog == [source |-> "none", inputs |-> <<>>, axes |-> <<>>, lookups |-> <<>>]

\* what an interpolation at the inputs v computes per axis and looks up
TraceOf(source, v, axes) ==
  [source |-> source, inputs |-> v, axes |-> axes, lookups |-> InterpolationLookups(axes)]

InterpolationTrace(self, source, v) ==
  Strict3(TraceOf, source, v, AxisIndexes(self, v))

\* what the k-th next() of the generator looks up
GenTraceAt(self, gen, idx) ==
  IF gen.interpolate_output
  THEN IF gen.output_sample_count - 1 = 0 THEN NoLog
       ELSE InterpolationTrace(self, "generator", InputValue(self, gen, idx))
  ELSE [source |-> "generator", inputs |-> <<>>, axes |-> <<>>, lookups |-> <<idx>>]

GenTrace(self, gen, k) ==
  GenTraceAt(self, gen, GridIndex(gen.increment_red_fastest, gen.output_sample_count, k))

(***************************************************************************)
(* The state: pc is the point the run has reached, args the arguments of   *)
(* the call under study, lut the ColorLUT in use and orig the one the run  *)
(* started from, gen the generator get_values_translated returned, pos the *)
(* number of values it has yielded and out those values, res the result of *)
(* the last call, log the lookups of the last call, dest the destination   *)
(* file (whether it exists, and its lines) and before what it was at the   *)
(* start.                                                                  *)
(***************************************************************************)
VARIABLES pc, args, lut, orig, gen, pos, out, res, log, dest, before

vars == <<pc, args, lut, orig, gen, pos, out, res, log, dest, before>>

None == <<>>

Absent == [exists |-> FALSE, lines |-> <<>>]
File(lines) == [exists |-> TRUE, lines |-> lines]

\* array(typecode, ...) buffers of n samples
Ramp(n) == [k \in 1..n |-> k - 1]
Scrambled(n) == [k \in 1..n |-> (7 * (k - 1) + 3) % 251]
FloatRamp(n) == [k \in 1..n |-> FDiv(FFromInt(k - 1), FFromInt(n))]

MaxN == 3
GridSizes == 2..MaxN

Samples(n) == 3 * n * n * n

\* ColorLUTs of GridSizes: 8 bit and 10 bit buffers, and float buffers
IntLUTs(flags) ==
  {ColorLUT(Ramp(Samples(n)), "B", n, IntDomain(255), rif).val : n \in GridSizes, rif \in flags}
  \cup {ColorLUT(Scrambled(Samples(n)), "H", n, IntDomain(1023), rif).val : n \in GridSizes, rif \in flags}

FloatLUTs(flags) ==
  {ColorLUT(FloatRamp(Samples(n)), "d", n, FloatDomain(FOne), rif).val : n \in GridSizes, rif \in flags}

LUTs(integral, flags) == IF integral THEN IntLUTs(flags) ELSE FloatLUTs(flags)

(***************************************************************************)
(* Construction: ColorLUT(data, sample_count, input_domain).               *)
(***************************************************************************)
MaxDataLen == 25
CtorTypecodes == {"B", "H", "q", "u", "f", "d"}
CtorSampleCounts ==
  {[isInt |-> TRUE, v |-> n] : n \in -1..MaxN} \cup {[isInt |-> FALSE, v |-> 2]}
CtorDomains ==
  {IntDomain(255), IntDomain(0), FloatDomain(FOne), [kind |-> "none", f |-> FZero]}
CtorArgs ==
  [isArray : BOOLEAN, typecode : CtorTypecodes, dataLen : 0..MaxDataLen,
   sample_count : CtorSampleCounts, input_domain : CtorDomains]

InitCtor ==
  /\ pc = "call"
  /\ args \in CtorArgs
  /\ lut = None /\ orig = None /\ gen = None /\ pos = 0
  /\ out = <<>> /\ res = None /\ log = NoLog /\ dest = Absent /\ before = Absent

Construct ==
  /\ pc = "call"
  /\ res' = ColorLUT_init(args.isArray, args.typecode, args.dataLen,
                          args.sample_count, args.input_domain, TRUE)
  /\ pc' = "returned"
  /\ UNCHANGED <<args, lut, orig, gen, pos, out, log, dest, before>>

NextCtor == Construct

SpecCtor == InitCtor /\ [][NextCtor]_vars

(***************************************************************************)
(* ColorLUT.from_haldclut(src) on a decoded image.                         *)
(***************************************************************************)
MaxWidth == 9
Widths == 1..MaxWidth \cup {27, 64}
PngInputs ==
  [width : Widths, height : Widths, bitdepth : {1, 2, 4, 8, 16},
   palette : BOOLEAN, gamma : BOOLEAN, transparent : BOOLEAN,
   alpha : BOOLEAN, greyscale : BOOLEAN]

InitHald ==
  /\ pc = "call"
  /\ args \in PngInputs
  /\ lut = None /\ orig = None /\ gen = None /\ pos = 0
  /\ out = <<>> /\ res = None /\ log = NoLog /\ dest = Absent /\ before = Absent

ReadHald ==
  /\ pc = "call"
  /\ \E c \in TruncSixthRoot(args.width * args.width) :
       res' = from_haldclut(args, c)
  /\ pc' = "returned"
  /\ UNCHANGED <<args, lut, orig, gen, pos, out, log, dest, before>>

NextHald == ReadHald

SpecHald == InitHald /\ [][NextHald]_vars

(***************************************************************************)
(* get_color_value_from_index(r, g, b) with any ints.                      *)
(***************************************************************************)
Margin == 2
Coordinates(self) == (0 - Margin)..(self.sample_count - 1 + Margin)

InitIndex ==
  /\ pc = "ready"
  /\ \E integral \in BOOLEAN : lut \in LUTs(integral, BOOLEAN)
  /\ orig = lut
  /\ args = None /\ gen = None /\ pos = 0
  /\ out = <<>> /\ res = None /\ log = NoLog /\ dest = Absent /\ before = Absent

LookupIndex ==
  /\ pc = "ready"
  /\ \E r \in Coordinates(lut), g \in Coordinates(lut), b \in Coordinates(lut) :
       /\ args' = <<r, g, b>>
       /\ res' = get_color_value_from_index(lut, r, g, b)
  /\ pc' = "looked"
  /\ UNCHANGED <<lut, orig, gen, pos, out, log, dest, before>>

NextIndex == LookupIndex

SpecIndex == InitIndex /\ [][NextIndex]_vars

(***************************************************************************)
(* A generator get_values_translated returned, consumed value by value.    *)
(* GenNext is one next(): the lookups, and the value yielded or the        *)
(* exception that ends the generator.                                      *)
(***************************************************************************)
Translate(increment_red_fastest, output_sample_count, output_domain) ==
  \E g \in {get_values_translated(lut, increment_red_fastest, output_sample_count, output_domain)} :
    IF g.err # "none"
    THEN /\ pc' = "raised"
         /\ res' = g
         /\ UNCHANGED <<gen, pos, out, log>>
    ELSE /\ pc' = "iterating"
         /\ gen' = g.val
         /\ pos' = 0
         /\ out' = <<>>
         /\ UNCHANGED <<res, log>>

GenNext ==
  /\ pc = "iterating"
  /\ pos < GenLength(gen)
  /\ log' = GenTrace(lut, gen, pos)
  /\ \E v \in {GenValue(lut, gen, pos)} :
       IF v.err # "none"
       THEN /\ pc' = "raised"
            /\ res' = v
            /\ UNCHANGED <<pos, out>>
       ELSE /\ out' = Append(out, v.val)
            /\ pos' = pos + 1
            /\ UNCHANGED <<pc, res>>
  /\ UNCHANGED <<args, lut, orig, gen, dest, before>>

GenStop ==
  /\ pc = "iterating"
  /\ pos = GenLength(gen)
  /\ pc' = "exhausted"
  /\ UNCHANGED <<args, lut, orig, gen, pos, out, res, log, dest, before>>

\* the values yielded, flattened into a buffer
Flatten(values) ==
  [i \in 1..(3 * Len(values)) |-> values[((i - 1) \div 3) + 1][((i - 1) % 3) + 1]]

(***************************************************************************)
(* Resampling a ColorLUT to its own sample_count and input_domain.         *)
(***************************************************************************)
InitTranslate ==
  /\ pc = "ready"
  /\ \E integral \in BOOLEAN : lut \in LUTs(integral, BOOLEAN)
  /\ orig = lut
  /\ args = None /\ gen = None /\ pos = 0
  /\ out = <<>> /\ res = None /\ log = NoLog /\ dest = Absent /\ before = Absent

CallTranslate ==
  /\ pc = "ready"
  /\ \E increment_red_fastest \in BOOLEAN :
       /\ args' = increment_red_fastest
       /\ Translate(increment_red_fastest, lut.sample_count, lut.input_domain)
  /\ UNCHANGED <<lut, orig, dest, before>>

NextTranslate == CallTranslate \/ GenNext \/ GenStop

SpecTranslate == InitTranslate /\ [][NextTranslate]_vars

(***************************************************************************)
(* A red-fastest ColorLUT written out blue-fastest, read back as a         *)
(* blue-fastest ColorLUT and written out red-fastest.                      *)
(***************************************************************************)
InitAxis ==
  /\ pc = "ready"
  /\ \E integral \in BOOLEAN : lut \in LUTs(integral, {TRUE})
  /\ orig = lut
  /\ args = 1
  /\ gen = None /\ pos = 0
  /\ out = <<>> /\ res = None /\ log = NoLog /\ dest = Absent /\ before = Absent

CallAxis ==
  /\ pc = "ready"
  /\ Translate(args # 1, lut.sample_count, lut.input_domain)
  /\ UNCHANGED <<args, lut, orig, dest, before>>

Rebuild ==
  /\ pc = "exhausted"
  /\ args = 1
  /\ \E l \in {ColorLUT(Flatten(out), lut.typecode, lut.sample_count, lut.input_domain, FALSE)} :
       IF l.err # "none"
       THEN /\ pc' = "raised"
            /\ res' = l
            /\ UNCHANGED <<args, lut>>
       ELSE /\ lut' = l.val
            /\ args' = 2
            /\ pc' = "ready"
            /\ UNCHANGED res
  /\ UNCHANGED <<orig, gen, pos, out, log, dest, before>>

Finish ==
  /\ pc = "exhausted"
  /\ args = 2
  /\ pc' = "done"
  /\ UNCHANGED <<args, lut, orig, gen, pos, out, res, log, dest, before>>

NextAxis == CallAxis \/ GenNext \/ GenStop \/ Rebuild \/ Finish

SpecAxis == InitAxis /\ [][NextAxis]_vars

(***************************************************************************)
(* get_interpolated_color_value at the input coordinates of grid points.   *)
(***************************************************************************)
InterpLUTs ==
  {ColorLUT(Ramp(Samples(2)), "B", 2, IntDomain(255), TRUE).val,
   ColorLUT(Ramp(Samples(4)), "B", 4, IntDomain(255), TRUE).val,
   ColorLUT(Scrambled(Samples(6)), "H", 6, IntDomain(1023), TRUE).val}

\* the input coordinate i * sample_distance of grid index i
GridInput(self, i) == FMul(FFromInt(i), self.sample_distance)

InitInterp ==
  /\ pc = "ready"
  /\ lut \in InterpLUTs
  /\ orig = lut
  /\ args = None /\ gen = None /\ pos = 0
  /\ out = <<>> /\ res = None /\ log = NoLog /\ dest = Absent /\ before = Absent

InterpolateAtGrid ==
  /\ pc = "ready"
  /\ \E i \in 0..(lut.sample_count - 1), j \in 0..(lut.sample_count - 1),
        k \in 0..(lut.sample_count - 1) :
       \E v \in {<<GridInput(lut, i), GridInput(lut, j), GridInput(lut, k)>>} :
         /\ args' = <<i, j, k>>
         /\ log' = InterpolationTrace(lut, "call", v)
         /\ res' = get_interpolated_color_value(lut, v[1], v[2], v[3])
  /\ pc' = "returned"
  /\ UNCHANGED <<lut, orig, gen, pos, out, dest, before>>

NextInterp == InterpolateAtGrid

SpecInterp == InitInterp /\ [][NextInterp]_vars

(***************************************************************************)
(* Interpolation at inputs of [0, input_domain], and resampling to another *)
(* grid size: the 8 bit grid of 2 samples to 3 and 12 samples, the float   *)
(* grid of 4 samples to 2 and 3.                                           *)
(***************************************************************************)
ResampleLUTs(integral) ==
  IF integral THEN {ColorLUT(Ramp(Samples(2)), "B", 2, IntDomain(255), TRUE).val}
  ELSE {ColorLUT(FloatRamp(Samples(4)), "d", 4, FloatDomain(FOne), TRUE).val}

OutputSampleCounts(self) == IF self.integral THEN {3, 12} ELSE {2, 3}

\* the float next below input_domain
Below(d) == FSub(d, FMul(d, FRound(<<1>>, 0 - MantBits)))

\* inputs of [0, input_domain]
ProbeInputs(self) ==
  {FZero, self.sample_distance, FDiv(self.input_domain.f, FFromInt(2)),
   Below(self.input_domain.f), self.input_domain.f}

InitResample ==
  /\ pc = "ready"
  /\ \E integral \in BOOLEAN : lut \in ResampleLUTs(integral)
  /\ orig = lut
  /\ args = None /\ gen = None /\ pos = 0
  /\ out = <<>> /\ res = None /\ log = NoLog /\ dest = Absent /\ before = Absent

Interpolate ==
  /\ pc = "ready"
  /\ \E r \in ProbeInputs(lut), g \in ProbeInputs(lut), b \in ProbeInputs(lut) :
       /\ args' = <<r, g, b>>
       /\ log' = InterpolationTrace(lut, "call", <<r, g, b>>)
       /\ res' = get_interpolated_color_value(lut, r, g, b)
  /\ pc' = "returned"
  /\ UNCHANGED <<lut, orig, gen, pos, out, dest, before>>

CallResample ==
  /\ pc = "ready"
  /\ \E output_sample_count \in OutputSampleCounts(lut) :
       /\ args' = output_sample_count
       /\ Translate(TRUE, output_sample_count, lut.input_domain)
  /\ UNCHANGED <<lut, orig, dest, before>>

NextResample == Interpolate \/ CallResample \/ GenNext \/ GenStop

SpecResample == InitResample /\ [][NextResample]_vars

(***************************************************************************)
(* uniform_intervals(end, samples, floating_point).                        *)
(***************************************************************************)
MaxEnd == 40
MaxSamples == 8
\* the intervals of 8 and 10 bit domains, and spacings near the tolerance
NamedIntervals == {<<255, 16>>, <<1023, 17>>, <<1023, 33>>, <<300, 32>>, <<100, 27>>}
IntervalInputs ==
  {<<end, samples>> : end \in 1..MaxEnd, samples \in 2..MaxSamples} \cup NamedIntervals

InitUniform ==
  /\ pc = "call"
  /\ \E i \in IntervalInputs, floating_point \in BOOLEAN :
       args = [end |-> i[1], samples |-> i[2], floating_point |-> floating_point]
  /\ lut = None /\ orig = None /\ gen = None /\ pos = 0
  /\ out = <<>> /\ res = None /\ log = NoLog /\ dest = Absent /\ before = Absent

CallUniform ==
  /\ pc = "call"
  /\ res' = uniform_intervals(args.end, args.samples, args.floating_point)
  /\ pc' = "returned"
  /\ UNCHANGED <<args, lut, orig, gen, pos, out, log, dest, before>>

NextUniform == CallUniform

SpecUniform == InitUniform /\ [][NextUniform]_vars

(***************************************************************************)
(* write_3dl(dest) and write_cube(dest).  The destination is opened for    *)
(* writing, which empties it, and the header and the rows are written one  *)
(* after the other; opening and every write can fail (OSError: no          *)
(* permission, disk full, ...), which closes the file and ends the         *)
(* conversion.                                                             *)
(***************************************************************************)
\* the header line and the generator the writer computes before it opens dest
WriterPlanOf(kind, header, g) ==
  IF header.err # "none" THEN header
  ELSE IF g.err # "none" THEN g
  ELSE Ok([header |-> [kind |-> kind, v |-> header.val], gen |-> g.val])

WriterPlan(self, format) ==
  IF format = "3dl"
  THEN WriterPlanOf("intervals",
                    uniform_intervals(1023, self.sample_count, FALSE),
                    get_values_translated(self, FALSE, self.sample_count, IntDomain(1023)))
  ELSE WriterPlanOf("LUT_3D_SIZE",
                    Ok(<<self.sample_count>>),
                    get_values_translated(self, TRUE, self.sample_count, FloatDomain(FOne)))

\* the line of one color value
FormatRowOf(self, g, format, color) ==
  IF format = "3dl"
  THEN [kind |-> "row", v |-> [a \in 1..3 |-> FormatF0(self.integral /\ ~g.scale_output, color[a])]]
  ELSE [kind |-> "row",
        v |-> [a \in 1..3 |-> FormatG7(AsFloat(self.integral /\ ~g.scale_output, color[a]))]]

FormatRow(self, g, format, color) ==
  Strict1(LAMBDA x : FormatRowOf(x[1], x[2], x[3], x[4]), <<self, g, format, color>>)

InitWrite ==
  /\ pc = "ready"
  /\ \E integral \in BOOLEAN : lut \in LUTs(integral, {TRUE})
  /\ orig = lut
  /\ args \in {"3dl", "cube"}
  /\ dest \in {Absent, File(<<[kind |-> "old", v |-> <<>>]>>)}
  /\ before = dest
  /\ gen = None /\ pos = 0 /\ out = <<>> /\ res = None /\ log = NoLog

OpenDest ==
  /\ pc = "ready"
  /\ \E plan \in {WriterPlan(lut, args)}, opened \in BOOLEAN :
       IF plan.err # "none"
       THEN /\ pc' = "failed"
            /\ res' = plan
            /\ UNCHANGED <<gen, dest>>
       ELSE IF ~opened
       THEN /\ pc' = "failed"
            /\ res' = Raise("OSError")
            /\ UNCHANGED <<gen, dest>>
       ELSE /\ pc' = "header"
            /\ res' = plan.val.header
            /\ gen' = plan.val.gen
            /\ dest' = File(<<>>)
  /\ UNCHANGED <<args, lut, orig, pos, out, log, before>>

WriteHeader ==
  /\ pc = "header"
  /\ \E written \in BOOLEAN :
       IF written
       THEN /\ dest' = File(Append(dest.lines, res))
            /\ pc' = "rows"
            /\ UNCHANGED res
       ELSE /\ pc' = "failed"
            /\ res' = Raise("OSError")
            /\ UNCHANGED dest
  /\ UNCHANGED <<args, lut, orig, gen, pos, out, log, before>>

WriteRow ==
  /\ pc = "rows"
  /\ pos < GenLength(gen)
  /\ \E color \in {GenValue(lut, gen, pos)}, written \in BOOLEAN :
       IF color.err # "none"
       THEN /\ pc' = "failed"
            /\ res' = color
            /\ UNCHANGED <<dest, pos>>
       ELSE IF ~written
       THEN /\ pc' = "failed"
            /\ res' = Raise("OSError")
            /\ UNCHANGED <<dest, pos>>
       ELSE /\ dest' = File(Append(dest.lines, FormatRow(lut, gen, args, color.val)))
            /\ pos' = pos + 1
            /\ UNCHANGED <<pc, res>>
  /\ UNCHANGED <<args, lut, orig, gen, out, log, before>>

CloseDest ==
  /\ pc = "rows"
  /\ pos = GenLength(gen)
  /\ pc' = "done"
  /\ UNCHANGED <<args, lut, orig, gen, pos, out, res, log, dest, before>>

NextWrite == OpenDest \/ WriteHeader \/ WriteRow \/ CloseDest

SpecWrite == InitWrite /\ [][NextWrite]_vars

(***************************************************************************)
(* Properties.                                                             *)
(***************************************************************************)
Cube(n) == n * n * n
Abs(n) == IF n < 0 THEN 0 - n ELSE n

\* C1: every ColorLUT whose construction succeeds has a buffer of
\* 3 * sample_count^3 samples, samples of the kind (integral or floating) of
\* input_domain, and an int sample_count >= 2; so every combination that
\* breaks one of the three (sample_count 1 with 3 samples, 0, negative) fails.
C1_ConstructionInvariants ==
  (pc = "returned" /\ res.err = "none") =>
    /\ args.isArray
    /\ args.sample_count.isInt
    /\ args.sample_count.v >= 2
    /\ args.dataLen = 3 * Cube(args.sample_count.v)
    /\ \/ args.input_domain.kind = "int" /\ args.typecode \in {"B", "H"}
       \/ args.input_domain.kind = "float" /\ args.typecode \in {"f", "d"}
    /\ res.val.sample_count = args.sample_count.v
    /\ res.val.dataLen = args.dataLen

C1_Constructed ==
  /\ pc = "returned"
  /\ res.err = "none"
  /\ args.sample_count.v = 2
  /\ args.typecode = "d"

ValidMetadata(png) ==
  /\ png.bitdepth \in {8, 16}
  /\ ~png.palette /\ ~png.gamma /\ ~png.transparent /\ ~png.alpha

DimensionRejection == res.err = "ValueError" /\ res.why = "dimensions"

\* C5 as the specification states it: a 64x64 image with valid metadata is
\* rejected with the Hald CLUT dimension rejection.
C5_Rejects64 ==
  (pc = "returned" /\ args.width = 64 /\ args.height = 64 /\ ValidMetadata(args)) =>
    DimensionRejection

\* C5: a 64x64 image with valid metadata passes the dimension check
\* (4096 = 4^6) and gives a ColorLUT of sample_count 16 with 3 * 4096 samples
\* and input_domain 2^bitdepth - 1.
C5_Accepts64 ==
  (pc = "returned" /\ args.width = 64 /\ args.height = 64 /\ ValidMetadata(args)) =>
    /\ res.err = "none"
    /\ res.val.sample_count = 16
    /\ res.val.dataLen = 3 * 4096
    /\ res.val.input_domain = IntDomain(2^args.bitdepth - 1)

C5_Read64 ==
  /\ pc = "returned"
  /\ args.width = 64 /\ args.height = 64
  /\ ValidMetadata(args)
  /\ args.bitdepth = 16
  /\ res.err = "none"

\* n is a perfect 6th power
PerfectSixthPower(n) ==
  \E c \in 1..n : c * c <= n /\ Cube(c) <= n /\ Pow6(c) = n

\* C6 as the specification states it: with valid metadata the dimension
\* check passes iff width = height and width^2 is a perfect 6th power, and
\* then sample_count^3 = width * height and construction succeeds.
C6_PassesAndConstructs ==
  (pc = "returned" /\ ValidMetadata(args)) =>
    /\ ~DimensionRejection <=>
         (args.width = args.height /\ PerfectSixthPower(args.width * args.width))
    /\ ~DimensionRejection =>
         /\ Cube(RoundCubeRoot(args.width * args.width)) = args.width * args.height
         /\ res.err = "none"
         /\ res.val.sample_count = RoundCubeRoot(args.width * args.width)
         /\ res.val.dataLen = 3 * args.width * args.height
         /\ res.val.input_domain = IntDomain(2^args.bitdepth - 1)
         /\ res.val.red_increments_fastest

\* C6: with valid metadata the dimension check passes iff width = height and
\* width^2 is a perfect 6th power, and then sample_count^3 = width * height;
\* construction succeeds iff moreover width > 1: a 1x1 image passes the
\* check and fails in the constructor with a division by zero.
C6_PassesAndConstructsAboveOne ==
  (pc = "returned" /\ ValidMetadata(args)) =>
    /\ ~DimensionRejection <=>
         (args.width = args.height /\ PerfectSixthPower(args.width * args.width))
    /\ ~DimensionRejection =>
         /\ Cube(RoundCubeRoot(args.width * args.width)) = args.width * args.height
         /\ res.err = "none" <=> args.width > 1
         /\ args.width = 1 => res.err = "ZeroDivisionError"
         /\ res.err = "none" =>
              /\ res.val.sample_count = RoundCubeRoot(args.width * args.width)
              /\ res.val.dataLen = 3 * args.width * args.height
              /\ res.val.input_domain = IntDomain(2^args.bitdepth - 1)
              /\ res.val.red_increments_fastest

C6_Read8 ==
  /\ pc = "returned"
  /\ ValidMetadata(args)
  /\ args.width = 8 /\ args.height = 8
  /\ ~args.greyscale
  /\ res.err = "none"
  /\ res.val.sample_count = 4

\* the value stored at a grid point, as floats
Stored(self, idx) ==
  LET v == get_color_value_from_index(self, idx[1], idx[2], idx[3]).val
  IN  <<AsFloat(self.integral, v[1]), AsFloat(self.integral, v[2]), AsFloat(self.integral, v[3])>>

\* equal within floating tolerance (2^-20)
SameValue(x, y) ==
  \A a \in 1..3 : FCmp(FAbsDiff(x[a], y[a]), FRound(<<1>>, 0 - 20)) <= 0

\* C3: interpolating at the input coordinates (i, j, k) * sample_distance of
\* a grid point returns the value stored at grid point (i, j, k), for every
\* grid point, indices 0 and sample_count - 1 included.
C3_ExactAtGridPoints ==
  pc = "returned" =>
    /\ res.err = "none"
    /\ SameValue(res.val, Stored(lut, args))

\* exact rounding of num / den to the nearest integer, halves to even
HalfEven(num, den) ==
  LET q == num \div den
      r == num % den
  IN  IF 2 * r < den THEN q
      ELSE IF 2 * r > den THEN q + 1
      ELSE IF q % 2 = 0 THEN q ELSE q + 1

\* some adjacent pair of rounded values has a spacing that differs from
\* end / (samples - 1) by more than 7% of it
ExceedsTolerance(end, samples) ==
  \E i \in 1..(samples - 1) :
    LET spacing == HalfEven(i * end, samples - 1) - HalfEven((i - 1) * end, samples - 1)
    IN  100 * Abs(spacing * (samples - 1) - end) > 7 * end

\* C7: for integral output, end > 0 and samples >= 2, uniform_intervals fails
\* with the non-uniform-distribution error exactly when some adjacent pair of
\* rounded values is spaced more than 7% off end / (samples - 1), and
\* otherwise returns the samples increasing integers nearest to
\* i * end / (samples - 1), from 0 to end; (255, 16) gives 0, 17, ..., 255.
C7_UniformIntervals ==
  (pc = "returned" /\ ~args.floating_point) =>
    /\ res.err \in {"none", "ValueError"}
    /\ res.err = "ValueError" <=> ExceedsTolerance(args.end, args.samples)
    /\ res.err = "none" =>
         /\ Len(res.val) = args.samples
         /\ res.val[1] = 0
         /\ res.val[args.samples] = args.end
         /\ \A i \in 1..args.samples :
              2 * Abs(res.val[i] * (args.samples - 1) - (i - 1) * args.end) <= args.samples - 1
         /\ \A i \in 2..args.samples : res.val[i - 1] < res.val[i]
    /\ (args.end = 255 /\ args.samples = 16) => res = Ok([i \in 1..16 |-> 17 * (i - 1)])

\* C8: a conversion that fails, at whatever point, leaves the destination
\* untouched (or absent) or holding the complete output: the header and all
\* sample_count^3 rows.
C8_NeverHalfWritten ==
  pc \in {"failed", "done"} =>
    \/ dest = before
    \/ dest.exists /\ Len(dest.lines) = 1 + Cube(lut.sample_count)

\* C9: a lookup with a coordinate outside [0, sample_count), negative or
\* equal to sample_count included, fails with an index error, and returns
\* neither another grid point's triple nor a shorter one.
C9_OutOfRangeFails ==
  (pc = "looked" /\ \E a \in 1..3 : args[a] \notin 0..(lut.sample_count - 1)) =>
    res.err = "IndexError"

LookupsInRange(self, lookups) ==
  \A n \in 1..Len(lookups) : \A a \in 1..3 : lookups[n][a] \in 0..(self.sample_count - 1)

AxisInRange(self, axis) ==
  /\ axis.err = "none"
  /\ axis.val.idx \in 0..(self.sample_count - 2)
  /\ FCmp(axis.val.d, FOne) <= 0

\* C10: for inputs of [0, input_domain] the 8 corners an interpolation looks
\* up lie in [0, sample_count) on every axis (idx0 in 0..sample_count-2)
\* and the weights in [0, 1]; so resampling to another output_sample_count
\* >= 2 never looks up out of range.
C10_NoOutOfRangeLookups ==
  /\ (pc = "returned" /\ \A a \in 1..3 : FCmp(args[a], lut.input_domain.f) <= 0) =>
       /\ Len(log.lookups) = 8
       /\ LookupsInRange(lut, log.lookups)
       /\ \A a \in 1..3 : AxisInRange(lut, log.axes[a])
  /\ pc \in {"iterating", "exhausted", "raised"} =>
       /\ pc # "raised"
       /\ LookupsInRange(lut, log.lookups)

====
